---------------------------- MODULE Spec2Model ----------------------------
(***************************************************************************)
(* A model of the sticker editor: ImageCollageApp (the transform record    *)
(* and its single setter), CollageCanvas (wheel, scale and rotation        *)
(* buttons, the continuous-rotation interval) and DraggableImage (mouse    *)
(* drag, one-finger drag, two-finger pinch and rotate).                    *)
(*                                                                         *)
(* Numbers.  The program computes in IEEE doubles.  For the gestures and   *)
(* the controls the model computes in fixed point: lengths in whole        *)
(* display pixels, angles in whole degrees, scales in tenths (scale 3 is   *)
(* 30, the clamp range [0.1, 10] is 1..100).  Math.sqrt and Math.atan2 are *)
(* rounded to that grid; the arithmetic of the handlers themselves is      *)
(* exact, and a pinch is offered only where its product lies on the grid   *)
(* (ExactOnGrid).  The export (handleSave) and the aspect ratio of the     *)
(* page are computed in doubles, rounding included.                        *)
(*                                                                         *)
(* React.  A state variable has a committed value, the one the handlers    *)
(* of the last render closed over, and a queued value that the next        *)
(* render commits.  The handlers of discrete events (mousedown, mouseup,   *)
(* click, touchstart, touchend) are followed, in the same step, by the     *)
(* synchronous re-render and effect flush React performs for them.  The    *)
(* updates of continuous events (mousemove, touchmove, wheel) and of       *)
(* timer callbacks stay queued until a later Render step, whose passive    *)
(* effects run in a still later FlushEffects step.                         *)
(***************************************************************************)
EXTENDS Integers, Sequences, FiniteSets

\* ---------------------------------------------------------------- bounds
\* The number of input events (file, pointer, wheel, button, timer) in one
\* behaviour of Spec after the upload; the events that only end a pointer
\* gesture (mouseup, touchend) are not counted.
MaxEvents == 3
\* The longest run of clicks of one rotation button in a behaviour of SpecClicks.
MaxClicks == 360
\* The number of touch starts and touch moves in one behaviour of SpecTouch.
MaxTouchEvents == 4
\* The number of touch starts, touch moves and wheel ticks in one behaviour of
\* SpecPinchStart.
MaxPinchEvents == 5

\* ------------------------------------------------------- program constants
MinScale == 1
MaxScale == 100
WheelStep == 1
ButtonStep == 2
RotationStep == 1
FullTurn == 360
HalfTurn == 180
InitialX == 200
InitialY == 200
InitialScaleValue == 30
ResetScale == 10

\* The identifiers of the touch points that can be down together.
TouchIds == {0, 1, 2}

\* The positions (clientX, clientY) a pointer sample is drawn from.
Pts == { <<200, 200>>, <<217, 200>>, <<234, 200>>, <<183, 203>>, <<183, 197>> }

\* ------------------------------------------------------------ Math library
\* sin(d degrees) * 10000 for d = 0 .. 90
SinTable ==
  << 0, 175, 349, 523, 698, 872, 1045, 1219, 1392, 1564, 1736, 1908, 2079,
     2250, 2419, 2588, 2756, 2924, 3090, 3256, 3420, 3584, 3746, 3907, 4067, 4226,
     4384, 4540, 4695, 4848, 5000, 5150, 5299, 5446, 5592, 5736, 5878, 6018, 6157,
     6293, 6428, 6561, 6691, 6820, 6947, 7071, 7193, 7314, 7431, 7547, 7660, 7771,
     7880, 7986, 8090, 8192, 8290, 8387, 8480, 8572, 8660, 8746, 8829, 8910, 8988,
     9063, 9135, 9205, 9272, 9336, 9397, 9455, 9511, 9563, 9613, 9659, 9703, 9744,
     9781, 9816, 9848, 9877, 9903, 9925, 9945, 9962, 9976, 9986, 9994, 9998, 10000 >>

Abs(n) == IF n < 0 THEN -n ELSE n

\* sin of a whole number of degrees in -360 .. 360, times 10000
SinDeg(a) ==
  LET m == (a + 720) % 360
  IN  IF m <= 90 THEN SinTable[m + 1]
      ELSE IF m <= 180 THEN SinTable[180 - m + 1]
      ELSE IF m <= 270 THEN -SinTable[m - 180 + 1]
      ELSE -SinTable[360 - m + 1]

CosDeg(a) == SinDeg(a + 90)

\* Math.atan2(dy, dx) * 180 / Math.PI, rounded to the nearest degree: the
\* direction in (-180, 180] closest to the vector; atan2(0, 0) is 0.
Atan2Deg(dy, dx) ==
  IF dx = 0 /\ dy = 0 THEN 0
  ELSE CHOOSE a \in (1 - HalfTurn)..HalfTurn :
         \A b \in (1 - HalfTurn)..HalfTurn :
            dx * CosDeg(a) + dy * SinDeg(a) >= dx * CosDeg(b) + dy * SinDeg(b)

\* Math.sqrt rounded down to a whole number
SqrtFloor(n) == CHOOSE r \in 0..n : r * r <= n /\ n < (r + 1) * (r + 1)

\* The vectors between two pointer samples, and the two functions on them
\* tabulated once.
Diffs == { <<p[1] - q[1], p[2] - q[2]>> : p \in Pts, q \in Pts }

DistanceTable == [v \in Diffs |-> SqrtFloor(v[1] * v[1] + v[2] * v[2])]

AngleTable == [v \in Diffs |-> Atan2Deg(v[2], v[1])]

\* ------------------------------------------------------- DraggableImage.tsx
getDistance(touch1, touch2) ==
  DistanceTable[<<touch1.x - touch2.x, touch1.y - touch2.y>>]

getAngle(touch1, touch2) ==
  AngleTable[<<touch2.x - touch1.x, touch2.y - touch1.y>>]

RECURSIVE AddWhileBelow(_, _)
\* while (a < lim) a += 360
AddWhileBelow(a, lim) ==
  IF a < lim THEN AddWhileBelow(a + FullTurn, lim) ELSE a

RECURSIVE SubWhileAbove(_, _)
\* while (a > lim) a -= 360
SubWhileAbove(a, lim) ==
  IF a > lim THEN SubWhileAbove(a - FullTurn, lim) ELSE a

RECURSIVE SubWhileAtLeast(_, _)
\* while (a >= lim) a -= 360
SubWhileAtLeast(a, lim) ==
  IF a >= lim THEN SubWhileAtLeast(a - FullTurn, lim) ELSE a

\* ClampScale without Math.min(10, ...)
ClampScaleNoCap(s) == IF s < MinScale THEN MinScale ELSE s

\* Math.max(0.1, Math.min(10, s))
ClampScale(s) ==
  LET capped == IF s > MaxScale THEN MaxScale ELSE s
  IN  IF capped < MinScale THEN MinScale ELSE capped

\* NormalizeAngleDelta with neither loop
NormalizeAngleDeltaOff(d) == d

\* NormalizeAngleDelta without its second loop
NormalizeAngleDeltaDownOnly(d) == SubWhileAbove(d, HalfTurn)

\* while (angleDelta > 180) angleDelta -= 360;
\* while (angleDelta < -180) angleDelta += 360;
NormalizeAngleDelta(d) == AddWhileBelow(SubWhileAbove(d, HalfTurn), -HalfTurn)

\* while (newRotation < 0) newRotation += 360;
\* while (newRotation >= 360) newRotation -= 360;
NormalizeRotation(r) == SubWhileAtLeast(AddWhileBelow(r, 0), FullTurn)

\* PinchScale from the reset value of initialScale instead of the snapshot
PinchScaleFromReset(iScale, cur, init) == ClampScale((ResetScale * cur) \div init)

\* initialScale * (currentDistance / initialDistance), clamped
PinchScale(iScale, cur, init) == ClampScale((iScale * cur) \div init)

\* The product above is a point of the grid, or is clamped whatever it is.
ExactOnGrid(iScale, cur, init) ==
  \/ (iScale * cur) % init = 0
  \/ iScale * cur >= MaxScale * init
  \/ iScale * cur <= MinScale * init

\* ------------------------------------------------------- numbers of export
\* handleSave computes in IEEE 754 doubles, and so does the model: a finite
\* double is sign * m * 2^e with m odd (or zero), so that equal numbers are
\* equal records, and every operation rounds its exact result to 53
\* significant bits, ties to even.  The mantissa is a natural number of any
\* size, kept as a sequence of limbs in base 2^15, least significant first and
\* without leading zero limb.  The exponent is not bounded: the numbers of
\* handleSave stay far from overflow and from the subnormal range.  The two
\* zeros are not told apart.
LimbBits == 15

Base == 2^LimbBits

Precision == 53

BNat(n) ==
  IF n = 0 THEN << >>
  ELSE IF n < Base THEN <<n>>
  ELSE IF n < Base * Base THEN <<n % Base, n \div Base>>
  ELSE <<n % Base, (n \div Base) % Base, n \div (Base * Base)>>

RECURSIVE BTrim(_)

BTrim(a) ==
  IF a = << >> \/ a[Len(a)] # 0 THEN a ELSE BTrim(SubSeq(a, 1, Len(a) - 1))

LimbAt(a, i) == IF i <= Len(a) THEN a[i] ELSE 0

RECURSIVE BCmpFrom(_, _, _)

BCmpFrom(a, b, i) ==
  IF i = 0 THEN 0
  ELSE IF a[i] > b[i] THEN 1
  ELSE IF a[i] < b[i] THEN -1
  ELSE BCmpFrom(a, b, i - 1)

\* -1, 0 or 1 as a is below, equal to or above b
BCmp(a, b) ==
  IF Len(a) > Len(b) THEN 1
  ELSE IF Len(a) < Len(b) THEN -1
  ELSE BCmpFrom(a, b, Len(a))

RECURSIVE BAddFrom(_, _, _, _)

BAddFrom(a, b, i, carry) ==
  IF i > Len(a) /\ i > Len(b)
  THEN IF carry = 0 THEN << >> ELSE <<carry>>
  ELSE LET s == LimbAt(a, i) + LimbAt(b, i) + carry
       IN  <<s % Base>> \o BAddFrom(a, b, i + 1, s \div Base)

BAdd(a, b) == BAddFrom(a, b, 1, 0)

RECURSIVE BSubFrom(_, _, _, _)

BSubFrom(a, b, i, borrow) ==
  IF i > Len(a) THEN << >>
  ELSE LET s == a[i] - LimbAt(b, i) - borrow
       IN  <<(s + Base) % Base>> \o BSubFrom(a, b, i + 1, IF s < 0 THEN 1 ELSE 0)

\* a - b for a >= b
BSub(a, b) == BTrim(BSubFrom(a, b, 1, 0))

RECURSIVE BMulLimbFrom(_, _, _, _)

BMulLimbFrom(a, k, i, carry) ==
  IF i > Len(a)
  THEN IF carry = 0 THEN << >> ELSE <<carry>>
  ELSE LET p == a[i] * k + carry
       IN  <<p % Base>> \o BMulLimbFrom(a, k, i + 1, p \div Base)

\* a * k for a limb k
BMulLimb(a, k) == IF k = 0 THEN << >> ELSE BMulLimbFrom(a, k, 1, 0)

\* a * Base^n
BShiftLimbs(a, n) == IF a = << >> THEN << >> ELSE [i \in 1..n |-> 0] \o a

RECURSIVE BMulFrom(_, _, _)

BMulFrom(a, b, j) ==
  IF j > Len(b) THEN << >>
  ELSE BAdd(BShiftLimbs(BMulLimb(a, b[j]), j - 1), BMulFrom(a, b, j + 1))

BMul(a, b) == BMulFrom(a, b, 1)

\* a * 2^k
BShl(a, k) == BShiftLimbs(BMulLimb(a, 2^(k % LimbBits)), k \div LimbBits)

RECURSIVE BDivLimbFrom(_, _, _, _)

BDivLimbFrom(a, d, i, rem) ==
  IF i = 0 THEN [q |-> << >>, r |-> BNat(rem)]
  ELSE LET cur == rem * Base + a[i]
           rest == BDivLimbFrom(a, d, i - 1, cur % d)
       IN  [q |-> rest.q \o <<cur \div d>>, r |-> rest.r]

QuotRem(st) == [q |-> BTrim(st.q), r |-> st.r]

\* quotient and remainder of a by a limb d
BDivModLimb(a, d) == QuotRem(BDivLimbFrom(a, d, Len(a), 0))

\* floor(a / 2^k)
BShr(a, k) ==
  IF k \div LimbBits >= Len(a) THEN << >>
  ELSE BDivModLimb(SubSeq(a, k \div LimbBits + 1, Len(a)), 2^(k % LimbBits)).q

\* a mod 2^k
BLowBits(a, k) ==
  BTrim([i \in 1..(IF Len(a) < k \div LimbBits + 1 THEN Len(a) ELSE k \div LimbBits + 1) |->
           IF i <= k \div LimbBits THEN a[i] ELSE a[i] % 2^(k % LimbBits)])

BitLenLimb(x) == CHOOSE n \in 1..LimbBits : 2^(n - 1) <= x /\ x < 2^n

\* the number of bits of a
BBitLen(a) ==
  IF a = << >> THEN 0 ELSE LimbBits * (Len(a) - 1) + BitLenLimb(a[Len(a)])

BIsOdd(a) == a # << >> /\ a[1] % 2 = 1

\* the number of zero bits at the low end of a # 0
BTrailingZeros(a) ==
  LET i == CHOOSE j \in 1..Len(a) : a[j] # 0 /\ \A k \in 1..(j - 1) : a[k] = 0
  IN  LimbBits * (i - 1)
        + (CHOOSE z \in 0..(LimbBits - 1) : a[i] % 2^z = 0 /\ a[i] % 2^(z + 1) # 0)

RECURSIVE BDigit(_, _, _, _)

\* the largest limb q + k, k < 2^bits, with d * (q + k) <= r
BDigit(r, d, q, bits) ==
  IF bits = 0 THEN q
  ELSE IF BCmp(BMulLimb(d, q + 2^(bits - 1)), r) <= 0
  THEN BDigit(r, d, q + 2^(bits - 1), bits - 1)
  ELSE BDigit(r, d, q, bits - 1)

RECURSIVE BLongDiv(_, _, _)

\* schoolbook division, limb i of n and those below it: quotient and
\* remainder, given the remainder of the limbs above
BLongDiv(n, d, st) ==
  IF st.i = 0 THEN st
  ELSE LET r == BAdd(BShiftLimbs(st.r, 1), BTrim(<<n[st.i]>>))
           digit == BDigit(r, d, 0, LimbBits)
       IN  BLongDiv(n, d, [q |-> <<digit>> \o st.q,
                          r |-> BSub(r, BMulLimb(d, digit)),
                          i |-> st.i - 1])

\* quotient and remainder of n by d # 0
BDivMod(n, d) ==
  IF Len(d) = 1 THEN BDivModLimb(n, d[1])
  ELSE QuotRem(BLongDiv(n, d, [q |-> << >>, r |-> << >>, i |-> Len(n)]))

DNaN == [kind |-> "nan", neg |-> FALSE, m |-> << >>, e |-> 0]

DInfinity(neg) == [kind |-> "inf", neg |-> neg, m |-> << >>, e |-> 0]

DZero == [kind |-> "num", neg |-> FALSE, m |-> << >>, e |-> 0]

IsNaN(a) == a.kind = "nan"

IsZero(a) == a.kind = "num" /\ a.m = << >>

\* sign * m * 2^e with the zero bits at the low end of m moved into e
DMake(neg, m, e) ==
  IF m = << >> THEN DZero
  ELSE LET z == BTrailingZeros(m)
       IN  [kind |-> "num", neg |-> neg, m |-> BShr(m, z), e |-> e + z]

\* kept + 1 or kept: cmp is -1, 0 or 1 as the bits cut off are below, at or
\* above one half of the last place kept, sticky tells a remainder beyond them
DRoundUp(neg, kept, cmp, sticky, e) ==
  DMake(neg,
        IF cmp > 0 \/ (cmp = 0 /\ (sticky \/ BIsOdd(kept)))
        THEN BAdd(kept, <<1>>) ELSE kept,
        e)

\* q has t bits more than a double holds
DRoundBits(neg, q, t, sticky, e) ==
  DRoundUp(neg, BShr(q, t), BCmp(BLowBits(q, t), BNat(2^(t - 1))), sticky, e + t)

DRoundQuotient(neg, qr, lost, e) ==
  DRoundBits(neg, qr.q, BBitLen(qr.q) - Precision, lost \/ qr.r # << >>, e)

\* n * 2^s / d has 54 or 55 bits before the point
DRoundScaled(neg, n, d, e, s) ==
  DRoundQuotient(neg,
                 BDivMod(IF s >= 0 THEN BShl(n, s) ELSE BShr(n, -s), d),
                 s < 0 /\ BLowBits(n, -s) # << >>,
                 e - s)

\* The double nearest to sign * (n / d) * 2^e, ties to even: the quotient is
\* taken to 54 or 55 bits, the bits beyond the 53rd and the remainder decide.
DRound(neg, n, d, e) ==
  IF n = << >> THEN DZero
  ELSE DRoundScaled(neg, n, d, e, Precision + 1 - (BBitLen(n) - BBitLen(d)))

\* a whole number below 2^31 as a double
D(i) == DMake(i < 0, BNat(IF i < 0 THEN -i ELSE i), 0)

DNeg(a) == IF a.kind = "nan" \/ IsZero(a) THEN a ELSE [a EXCEPT !.neg = ~a.neg]

DMul(a, b) ==
  IF IsNaN(a) \/ IsNaN(b) THEN DNaN
  ELSE IF a.kind = "inf" \/ b.kind = "inf"
  THEN IF IsZero(a) \/ IsZero(b) THEN DNaN ELSE DInfinity(a.neg # b.neg)
  ELSE DRound(a.neg # b.neg, BMul(a.m, b.m), <<1>>, a.e + b.e)

DDiv(a, b) ==
  IF IsNaN(a) \/ IsNaN(b) THEN DNaN
  ELSE IF a.kind = "inf"
  THEN IF b.kind = "inf" THEN DNaN ELSE DInfinity(a.neg # b.neg)
  ELSE IF b.kind = "inf" THEN DZero
  ELSE IF IsZero(b)
  THEN IF IsZero(a) THEN DNaN ELSE DInfinity(a.neg # b.neg)
  ELSE DRound(a.neg # b.neg, a.m, b.m, a.e - b.e)

\* sign * x * 2^e plus sign * y * 2^e
DAddAligned(aneg, x, bneg, y, e) ==
  DRound(IF aneg = bneg \/ BCmp(x, y) >= 0 THEN aneg ELSE bneg,
         IF aneg = bneg THEN BAdd(x, y)
         ELSE IF BCmp(x, y) >= 0 THEN BSub(x, y) ELSE BSub(y, x),
         <<1>>, e)

DAdd(a, b) ==
  IF IsNaN(a) \/ IsNaN(b) THEN DNaN
  ELSE IF a.kind = "inf"
  THEN IF b.kind = "inf" /\ a.neg # b.neg THEN DNaN ELSE a
  ELSE IF b.kind = "inf" THEN b
  ELSE IF IsZero(a) THEN b
  ELSE IF IsZero(b) THEN a
  ELSE DAddAligned(a.neg, BShl(a.m, IF a.e < b.e THEN 0 ELSE a.e - b.e),
                   b.neg, BShl(b.m, IF a.e < b.e THEN b.e - a.e ELSE 0),
                   IF a.e < b.e THEN a.e ELSE b.e)

IsPositive(a) == ~IsNaN(a) /\ ~IsZero(a) /\ ~a.neg

DSub(a, b) == DAdd(a, DNeg(b))

\* a > b, false when either is NaN
DGt(a, b) == ~IsNaN(a) /\ ~IsNaN(b) /\ IsPositive(DSub(a, b))

\* ------------------------------------------------------------------ state
VARIABLES
  \* ImageCollageApp
  uploadedImage,       \* committed: 0 is null, otherwise the file that was read
  uploadedNext,        \* with the queued setUploadedImage applied
  bolhatState,         \* committed transform, the one handlers closed over
  bolhatNext,          \* with the queued partial-update merges applied
  \* CollageCanvas
  reading,             \* files a FileReader is still reading
  bolhatStateRef,      \* bolhatStateRef.current
  wheelSees,           \* uploadedImage as closed over by the attached wheel listener
  effectPending,       \* passive effects of the last commit have not run yet
  intervals,           \* the intervals registered with setInterval and not cleared
  rotationIntervalRef, \* rotationIntervalRef.current: 0 is null, otherwise a timer id
  imageAspectRatio,    \* NoAspectRatio is null, otherwise img.width / img.height
  probing,             \* files whose `new Image()` of handleFileSelect is still loading
  loaded,              \* the <img> elements behind the three refs that finished loading
  alive,               \* CollageCanvas is mounted in the page
  alerts,              \* how many times alert() was called
  \* DraggableImage
  isDragging,
  isLongPress,
  dragStart,
  touches,
  touchesNext,
  initialDistance,
  initialAngle,
  initialScale,
  initialRotation,
  \* the environment and the history
  fingers,             \* the touch points on the screen, in order of landing
  nEvents,            \* how many steps of this behaviour are counted by its budget
  anchor,              \* pointer and overlay origin when the current drag was anchored,
                       \* or the two pointers whose touch start set the pinch accumulators,
                       \* with the scale and rotation of the transform at that touch start
  last                 \* the handler that ran last, with what it read and computed

appVars == <<uploadedImage, uploadedNext, bolhatState, bolhatNext>>

canvasVars == <<reading, bolhatStateRef, wheelSees, effectPending, intervals, rotationIntervalRef>>

pinchVars == <<initialDistance, initialAngle, initialScale, initialRotation>>

dragVars == <<isDragging, isLongPress, dragStart, touches, touchesNext>>

envVars == <<fingers, nEvents, anchor, last>>

pageVars == <<imageAspectRatio, probing, alive, alerts>>

vars == <<appVars, canvasVars, pinchVars, dragVars, envVars, pageVars, loaded>>

\* imageAspectRatio before the first img.onload
NoAspectRatio == [null |-> TRUE]

\* naturalWidth and naturalHeight of the pictures a file can hold.
NaturalSize ==
  [name \in {1, 3, 4, 5} |->
     CASE name = 1 -> <<1000, 500>>
       [] name = 3 -> <<500, 1000>>
       [] name = 4 -> <<600, 440>>
       [] name = 5 -> <<560, 480>>]

\* MIME types, as the sequences of their characters.
ImagePng == <<"i", "m", "a", "g", "e", "/", "p", "n", "g">>

ImageJpeg == <<"i", "m", "a", "g", "e", "/", "j", "p", "e", "g">>

TextPlain == <<"t", "e", "x", "t", "/", "p", "l", "a", "i", "n">>

\* The type of a file the browser does not recognise is the empty string.
NoType == << >>

\* The files the user can pick or drop.
Files == { [name |-> 1, type |-> ImagePng], [name |-> 2, type |-> TextPlain] }

\* type.startsWith(prefix)
StartsWith(type, prefix) ==
  /\ Len(type) >= Len(prefix)
  /\ SubSeq(type, 1, Len(prefix)) = prefix

InitialBolhatState ==
  [x |-> InitialX, y |-> InitialY, scale |-> InitialScaleValue, rotation |-> 0]

NoAnchor == [kind |-> "none", ptr |-> <<0, 0>>, origin |-> <<0, 0>>]

InitWith(image, transform) ==
  /\ uploadedImage = image
  /\ uploadedNext = image
  /\ bolhatState = transform
  /\ bolhatNext = transform
  /\ reading = {}
  /\ bolhatStateRef = transform
  /\ wheelSees = (image # 0)
  /\ effectPending = FALSE
  /\ intervals = {}
  /\ rotationIntervalRef = 0
  /\ imageAspectRatio = NoAspectRatio
  /\ probing = IF image = 0 THEN {} ELSE {image}
  /\ loaded = {}
  /\ alive = TRUE
  /\ alerts = 0
  /\ isDragging = FALSE
  /\ isLongPress = FALSE
  /\ dragStart = [x |-> 0, y |-> 0]
  /\ touches = << >>
  /\ touchesNext = << >>
  /\ initialDistance = 0
  /\ initialAngle = 0
  /\ initialScale = ResetScale
  /\ initialRotation = 0
  /\ fingers = << >>
  /\ nEvents = 0
  /\ anchor = NoAnchor
  /\ last = [op |-> "init"]

\* The state after construction.
Init == InitWith(0, InitialBolhatState)

\* ------------------------------------------------------------------ React
\* updateBolhatState without ...prev: the other fields fall back to their
\* initial values
updateBolhatStateReplaces(prev, newState) ==
  [f \in DOMAIN prev |->
     IF f \in DOMAIN newState THEN newState[f] ELSE InitialBolhatState[f]]

\* setBolhatState((prev) => ({ ...prev, ...newState }))
updateBolhatState(prev, newState) ==
  [f \in DOMAIN prev |-> IF f \in DOMAIN newState THEN newState[f] ELSE prev[f]]

\* A commit: every queued update becomes the committed state. The background
\* <img> starts loading again when its src changes.
Commit(b, t, u) ==
  /\ bolhatState' = b
  /\ bolhatNext' = b
  /\ touches' = t
  /\ touchesNext' = t
  /\ uploadedImage' = u
  /\ uploadedNext' = u
  /\ loaded' = IF u # uploadedImage THEN loaded \ {"background"} ELSE loaded

\* The passive effects of CollageCanvas: bolhatStateRef.current = bolhatState,
\* and the wheel listener is attached again with the new handleCanvasWheel.
RunEffects(b, u) ==
  /\ bolhatStateRef' = b
  /\ wheelSees' = (u # 0)
  /\ effectPending' = FALSE

\* What follows a discrete event whose handler set state: the synchronous
\* re-render with its effects.
FlushSync(b, t, u) == Commit(b, t, u) /\ RunEffects(b, u)

\* A scheduled re-render after continuous events or timer callbacks.
Render ==
  /\ \/ bolhatNext # bolhatState
     \/ touchesNext # touches
     \/ uploadedNext # uploadedImage
  /\ Commit(bolhatNext, touchesNext, uploadedNext)
  /\ effectPending' = TRUE
  /\ last' = [op |-> "render"]
  /\ UNCHANGED <<reading, bolhatStateRef, wheelSees, intervals, rotationIntervalRef>>
  /\ UNCHANGED <<pinchVars, isDragging, isLongPress, dragStart>>
  /\ UNCHANGED <<fingers, anchor>>
  /\ UNCHANGED pageVars

FlushEffects ==
  /\ effectPending
  /\ RunEffects(bolhatState, uploadedImage)
  /\ last' = [op |-> "effects"]
  /\ UNCHANGED <<appVars, reading, intervals, rotationIntervalRef>>
  /\ UNCHANGED <<pinchVars, dragVars>>
  /\ UNCHANGED <<fingers, anchor>>
  /\ UNCHANGED <<pageVars, loaded>>

\* ----------------------------------------------------------------- upload
\* handleFileSelect that reads files of every type
handleFileSelectAnyType(file) ==
  /\ file.name \notin reading \cup {uploadedNext}
  /\ reading' = reading \cup {file.name}
  /\ last' = [op |-> "fileSelect", file |-> file]
  /\ UNCHANGED <<appVars, bolhatStateRef, wheelSees, effectPending, intervals, rotationIntervalRef>>
  /\ UNCHANGED <<pinchVars, dragVars>>
  /\ UNCHANGED <<fingers, anchor>>
  /\ UNCHANGED <<pageVars, loaded>>

\* handleFileSelect, reached from handleDrop and handleFileInputChange
handleFileSelect(file) ==
  /\ file.name \notin reading \cup {uploadedNext}
  /\ reading' = IF StartsWith(file.type, <<"i", "m", "a", "g", "e", "/">>)
                THEN reading \cup {file.name}
                ELSE reading
  /\ last' = [op |-> "fileSelect", file |-> file]
  /\ UNCHANGED <<appVars, bolhatStateRef, wheelSees, effectPending, intervals, rotationIntervalRef>>
  /\ UNCHANGED <<pinchVars, dragVars>>
  /\ UNCHANGED <<fingers, anchor>>
  /\ UNCHANGED <<pageVars, loaded>>

\* reader.onload: onImageUpload(e.target.result)
readerOnLoad(name) ==
  /\ name \in reading
  /\ reading' = reading \ {name}
  /\ uploadedNext' = name
  /\ probing' = probing \cup {name}
  /\ last' = [op |-> "readerOnLoad", file |-> name]
  /\ UNCHANGED <<uploadedImage, bolhatState, bolhatNext>>
  /\ UNCHANGED <<bolhatStateRef, wheelSees, effectPending, intervals, rotationIntervalRef>>
  /\ UNCHANGED <<pinchVars, dragVars>>
  /\ UNCHANGED <<fingers, anchor>>
  /\ UNCHANGED <<imageAspectRatio, alive, alerts, loaded>>

\* img.onload of the `new Image()` of reader.onload: setImageAspectRatio
probeOnLoad(name) ==
  /\ alive
  /\ name \in probing
  /\ probing' = probing \ {name}
  /\ imageAspectRatio' = DDiv(D(NaturalSize[name][1]), D(NaturalSize[name][2]))
  /\ last' = [op |-> "probeOnLoad", file |-> name]
  /\ UNCHANGED <<appVars, canvasVars, pinchVars, dragVars, fingers, anchor>>
  /\ UNCHANGED <<alive, alerts, loaded>>

\* handleDrop: a file is dropped on the canvas (isDragOver only styles the
\* border and is left out)
handleDrop(file) == handleFileSelect(file)

\* handleClick and handleFileInputChange: a click on the canvas opens the file
\* dialog only without an uploaded image, and the user chooses a file in it;
\* the two are taken as one step.
handleFileInputChange(file) ==
  /\ uploadedImage = 0
  /\ handleFileSelect(file)

\* The overlay and the buttons are rendered only with an uploaded image.
Mounted == uploadedImage # 0

\* ------------------------------------------------- DraggableImage handlers
TouchData(id, p) == [identifier |-> id, x |-> p[1], y |-> p[2]]

TouchAt(t) == <<t.x, t.y>>

Origin(b) == <<b.x, b.y>>

\* The user works with one input device at a time.
MouseIdle == ~isDragging

NoTouch == fingers = << >>

RECURSIVE Without(_, _)
\* e.touches without the touches at the indices in lifted
Without(seq, lifted) ==
  IF seq = << >> THEN << >>
  ELSE LET rest == Without(Tail(seq), { k - 1 : k \in lifted \ {1} })
       IN  IF 1 \in lifted THEN rest ELSE <<Head(seq)>> \o rest

\* e.touches with the touch at index i moved to p
MovedTo(seq, i, p) == [seq EXCEPT ![i] = TouchData(seq[i].identifier, p)]

\* x: e.clientX - bolhatState.x, y: e.clientY - bolhatState.y
MouseDragStart(p, b) == [x |-> p[1] - b.x, y |-> p[2] - b.y]

\* MouseDragOrigin with the offset added
MouseDragOriginAdded(p, start) == [x |-> p[1] + start.x, y |-> p[2] + start.y]

\* newX = e.clientX - dragStart.x, newY = e.clientY - dragStart.y
MouseDragOrigin(p, start) == [x |-> p[1] - start.x, y |-> p[2] - start.y]

\* x: newTouches[0].x - bolhatState.x, y: newTouches[0].y - bolhatState.y
TouchDragStart(touch, b) == [x |-> touch.x - b.x, y |-> touch.y - b.y]

\* newX = currentTouch.x - dragStart.x, newY = currentTouch.y - dragStart.y
TouchDragOrigin(touch, start) == [x |-> touch.x - start.x, y |-> touch.y - start.y]

\* LiftDragStart without the overlay origin
LiftDragStartNoOrigin(touch, b) == [x |-> touch.x, y |-> touch.y]

\* x: remainingTouches[0].x - bolhatState.x, y: remainingTouches[0].y - bolhatState.y
LiftDragStart(touch, b) == [x |-> touch.x - b.x, y |-> touch.y - b.y]

\* PinchAfterTouchEnd without setInitialScale(1)
PinchAfterTouchEndKeepsScale(n, cur) ==
  IF n = 0
  THEN [distance |-> 0, angle |-> 0, scale |-> cur.scale, rotation |-> 0]
  ELSE IF n = 1 THEN [cur EXCEPT !.distance = 0]
  ELSE cur

\* The pinch accumulators after a touch end that leaves n touches.
PinchAfterTouchEnd(n, cur) ==
  IF n = 0
  THEN [distance |-> 0, angle |-> 0, scale |-> ResetScale, rotation |-> 0]
  ELSE IF n = 1 THEN [cur EXCEPT !.distance = 0]
  ELSE cur

handleMouseDown(p) ==
  /\ Mounted /\ MouseIdle /\ NoTouch
  /\ isDragging' = TRUE
  /\ dragStart' = MouseDragStart(p, bolhatState)
  /\ FlushSync(bolhatNext, touchesNext, uploadedNext)
  /\ anchor' = [kind |-> "press", ptr |-> p, origin |-> Origin(bolhatNext)]
  /\ last' = [op |-> "mouseDown", ptr |-> p, before |-> bolhatNext]
  /\ UNCHANGED <<reading, intervals, rotationIntervalRef, pinchVars, isLongPress, fingers>>
  /\ UNCHANGED pageVars

\* handleMouseMove without the test of isDragging, on a listener that is
\* always attached
handleMouseMoveAlways(p) ==
  /\ Mounted /\ NoTouch
  /\ bolhatNext' = updateBolhatState(bolhatNext, MouseDragOrigin(p, dragStart))
  /\ last' = [op |-> "mouseDrag", ptr |-> p]
  /\ UNCHANGED <<uploadedImage, uploadedNext, bolhatState>>
  /\ UNCHANGED <<canvasVars, pinchVars, dragVars, fingers, anchor>>
  /\ UNCHANGED <<pageVars, loaded>>

\* The document listener is attached while isDragging; the handler returns
\* at once otherwise.
handleMouseMove(p) ==
  /\ Mounted /\ NoTouch
  /\ bolhatNext' =
       IF isDragging
       THEN updateBolhatState(bolhatNext, MouseDragOrigin(p, dragStart))
       ELSE bolhatNext
  /\ last' = IF isDragging THEN [op |-> "mouseDrag", ptr |-> p]
              ELSE [op |-> "mouseMoveIgnored", before |-> bolhatNext]
  /\ UNCHANGED <<uploadedImage, uploadedNext, bolhatState>>
  /\ UNCHANGED <<canvasVars, pinchVars, dragVars, fingers, anchor>>
  /\ UNCHANGED <<pageVars, loaded>>

handleMouseUp ==
  /\ Mounted /\ isDragging
  /\ isDragging' = FALSE
  /\ FlushSync(bolhatNext, touchesNext, uploadedNext)
  /\ last' = [op |-> "mouseUp", before |-> bolhatNext]
  /\ anchor' = NoAnchor
  /\ UNCHANGED <<reading, intervals, rotationIntervalRef, pinchVars, isLongPress, dragStart>>
  /\ UNCHANGED fingers
  /\ UNCHANGED pageVars

handleTouchStart(p) ==
  /\ Mounted /\ MouseIdle
  /\ Len(fingers) < Cardinality(TouchIds)
  /\ LET id == CHOOSE i \in TouchIds :
                 /\ \A k \in 1..Len(fingers) : fingers[k].identifier # i
                 /\ \A j \in TouchIds :
                      (\A k \in 1..Len(fingers) : fingers[k].identifier # j) => i <= j
         newTouches == Append(fingers, TouchData(id, p))
     IN  /\ fingers' = newTouches
         /\ FlushSync(bolhatNext, newTouches, uploadedNext)
         /\ IF Len(newTouches) = 1
            THEN /\ isLongPress' = TRUE
                 /\ dragStart' = TouchDragStart(newTouches[1], bolhatState)
                 /\ anchor' = [kind |-> "press", ptr |-> p, origin |-> Origin(bolhatNext)]
                 /\ UNCHANGED pinchVars
            ELSE IF Len(newTouches) = 2
            THEN /\ isLongPress' = FALSE
                 /\ initialDistance' = getDistance(newTouches[1], newTouches[2])
                 /\ initialAngle' = getAngle(newTouches[1], newTouches[2])
                 /\ initialScale' = bolhatState.scale
                 /\ initialRotation' = bolhatState.rotation
                 /\ anchor' = [kind |-> "pair",
                               ids |-> {newTouches[1].identifier, newTouches[2].identifier},
                               scale |-> bolhatNext.scale,
                               rotation |-> bolhatNext.rotation]
                 /\ UNCHANGED dragStart
            ELSE UNCHANGED <<isLongPress, dragStart, anchor, pinchVars>>
         /\ last' = [op |-> "touchStart", count |-> Len(newTouches), before |-> bolhatNext]
  /\ UNCHANGED <<reading, intervals, rotationIntervalRef, isDragging>>
  /\ UNCHANGED pageVars

\* The branch handleTouchMove takes for the touches of the event.
MoveBranch(currentTouches) ==
  IF Len(currentTouches) = 1 /\ isLongPress /\ Len(touches) = 1 THEN "drag"
  ELSE IF Len(currentTouches) = 2 /\ Len(touches) = 2 /\ initialDistance > 0 THEN "pinch"
  ELSE "none"

\* let angleDelta = currentAngle - initialAngle, normalized
PinchAngleDelta(currentTouches) ==
  NormalizeAngleDelta(getAngle(currentTouches[1], currentTouches[2]) - initialAngle)

PinchRotation(currentTouches) ==
  NormalizeRotation(initialRotation + PinchAngleDelta(currentTouches))

handleTouchMove(i, p) ==
  /\ Mounted
  /\ i \in 1..Len(fingers)
  /\ TouchAt(fingers[i]) # p
  /\ LET currentTouches == MovedTo(fingers, i, p)
         branch == MoveBranch(currentTouches)
     IN  /\ fingers' = currentTouches
         /\ touchesNext' = currentTouches
         /\ branch = "pinch" =>
              ExactOnGrid(initialScale,
                          getDistance(currentTouches[1], currentTouches[2]),
                          initialDistance)
         /\ bolhatNext' =
              CASE branch = "drag" ->
                     updateBolhatState(bolhatNext,
                       TouchDragOrigin(currentTouches[1], dragStart))
                [] branch = "pinch" ->
                     updateBolhatState(bolhatNext,
                       [scale |-> PinchScale(initialScale,
                                    getDistance(currentTouches[1], currentTouches[2]),
                                    initialDistance),
                        rotation |-> PinchRotation(currentTouches)])
                [] OTHER -> bolhatNext
         /\ last' =
              CASE branch = "drag" ->
                     [op |-> "touchDrag", ptr |-> p]
                [] branch = "pinch" ->
                     [op |-> "pinch",
                      currentDistance |-> getDistance(currentTouches[1], currentTouches[2]),
                      currentAngle |-> getAngle(currentTouches[1], currentTouches[2]),
                      angleDelta |-> PinchAngleDelta(currentTouches)]
                [] OTHER -> [op |-> "touchMoveIgnored"]
  /\ UNCHANGED <<uploadedImage, uploadedNext, bolhatState, touches>>
  /\ UNCHANGED <<canvasVars, pinchVars, isDragging, isLongPress, dragStart>>
  /\ UNCHANGED anchor
  /\ UNCHANGED <<pageVars, loaded>>

handleTouchEnd(lifted) ==
  /\ Mounted
  /\ lifted # {}
  /\ lifted \subseteq 1..Len(fingers)
  /\ LET remainingTouches == Without(fingers, lifted)
     IN  /\ fingers' = remainingTouches
         /\ FlushSync(bolhatNext, remainingTouches, uploadedNext)
         /\ LET cur == [distance |-> initialDistance, angle |-> initialAngle,
                        scale |-> initialScale, rotation |-> initialRotation]
                after == PinchAfterTouchEnd(Len(remainingTouches), cur)
            IN  /\ initialDistance' = after.distance
                /\ initialAngle' = after.angle
                /\ initialScale' = after.scale
                /\ initialRotation' = after.rotation
         /\ IF Len(remainingTouches) = 0
            THEN /\ isLongPress' = FALSE
                 /\ anchor' = NoAnchor
                 /\ UNCHANGED dragStart
            ELSE IF Len(remainingTouches) = 1
            THEN /\ isLongPress' = TRUE
                 /\ dragStart' = LiftDragStart(remainingTouches[1], bolhatState)
                 /\ anchor' = [kind |-> "lift", ptr |-> TouchAt(remainingTouches[1]),
                               origin |-> Origin(bolhatNext)]
            ELSE UNCHANGED <<isLongPress, dragStart, anchor>>
         /\ last' = [op |-> "touchEnd", from |-> Len(fingers),
                     count |-> Len(remainingTouches), before |-> bolhatNext]
  /\ UNCHANGED <<reading, intervals, rotationIntervalRef, isDragging>>
  /\ UNCHANGED pageVars

\* -------------------------------------------------- CollageCanvas handlers
\* The timer ids setInterval can return.
TimerIds == {1, 2}

\* handleCanvasWheel without `if (!uploadedImage) return`
handleCanvasWheelAnyTime(deltaY) ==
  /\ LET scaleDelta == IF deltaY > 0 THEN -WheelStep ELSE WheelStep
     IN  bolhatNext' = updateBolhatState(bolhatNext,
                         [scale |-> ClampScale(bolhatStateRef.scale + scaleDelta)])
  /\ last' = [op |-> "wheel", before |-> bolhatNext.scale,
              scaleDelta |-> IF deltaY > 0 THEN -WheelStep ELSE WheelStep]
  /\ UNCHANGED <<uploadedImage, uploadedNext, bolhatState>>
  /\ UNCHANGED <<canvasVars, pinchVars, dragVars, fingers, anchor>>
  /\ UNCHANGED <<pageVars, loaded>>

\* handleCanvasWheel: deltaY is the sign of the wheel movement
handleCanvasWheel(deltaY) ==
  /\ bolhatNext' =
       IF wheelSees
       THEN LET scaleDelta == IF deltaY > 0 THEN -WheelStep ELSE WheelStep
            IN  updateBolhatState(bolhatNext,
                  [scale |-> ClampScale(bolhatStateRef.scale + scaleDelta)])
       ELSE bolhatNext
  /\ last' = IF wheelSees
              THEN [op |-> "wheel", before |-> bolhatNext.scale,
                    scaleDelta |-> IF deltaY > 0 THEN -WheelStep ELSE WheelStep]
              ELSE [op |-> "wheelIgnored", before |-> bolhatNext]
  /\ UNCHANGED <<uploadedImage, uploadedNext, bolhatState>>
  /\ UNCHANGED <<canvasVars, pinchVars, dragVars, fingers, anchor>>
  /\ UNCHANGED <<pageVars, loaded>>

\* Math.min(10, bolhatState.scale + 0.2)
ScaleUpValue(s) == IF s + ButtonStep > MaxScale THEN MaxScale ELSE s + ButtonStep

\* Math.max(0.1, bolhatState.scale - 0.2)
ScaleDownValue(s) == IF s - ButtonStep < MinScale THEN MinScale ELSE s - ButtonStep

\* onClick of the scale buttons
scaleClick(dir) ==
  /\ Mounted
  /\ LET newScale == IF dir = "up" THEN ScaleUpValue(bolhatState.scale)
                     ELSE ScaleDownValue(bolhatState.scale)
     IN  FlushSync(updateBolhatState(bolhatNext, [scale |-> newScale]),
                   touchesNext, uploadedNext)
  /\ last' = [op |-> "scaleClick", dir |-> dir, before |-> bolhatNext.scale]
  /\ UNCHANGED <<reading, intervals, rotationIntervalRef, pinchVars>>
  /\ UNCHANGED <<isDragging, isLongPress, dragStart, fingers, anchor>>
  /\ UNCHANGED pageVars

\* ClickRotation without the while loops
ClickRotationNoWrap(dir, r) ==
  IF dir = "left" THEN r - RotationStep ELSE r + RotationStep

\* Counter-clockwise: newRotation = rotation - 1; while (newRotation < 0) += 360
\* Clockwise: newRotation = rotation + 1; while (newRotation >= 360) -= 360
ClickRotation(dir, r) ==
  IF dir = "left" THEN AddWhileBelow(r - RotationStep, 0)
  ELSE SubWhileAtLeast(r + RotationStep, FullTurn)

\* onClick of the rotation buttons
rotateClick(dir) ==
  /\ Mounted
  /\ FlushSync(updateBolhatState(bolhatNext,
                 [rotation |-> ClickRotation(dir, bolhatState.rotation)]),
               touchesNext, uploadedNext)
  /\ LET continues == last.op = "rotateClick" /\ last.dir = dir
     IN  last' = [op |-> "rotateClick", dir |-> dir, before |-> bolhatNext.rotation,
                  runFrom |-> IF continues THEN last.runFrom ELSE bolhatNext.rotation,
                  runLen |-> IF continues THEN last.runLen + 1 ELSE 1]
  /\ UNCHANGED <<reading, intervals, rotationIntervalRef, pinchVars>>
  /\ UNCHANGED <<isDragging, isLongPress, dragStart, fingers, anchor>>
  /\ UNCHANGED pageVars

\* startContinuousRotation without clearInterval
startContinuousRotationKeepsPrevious(direction) ==
  /\ Mounted
  /\ LET id == CHOOSE i \in TimerIds :
                 /\ \A t \in intervals : t.id # i
                 /\ \A j \in TimerIds : (\A t \in intervals : t.id # j) => i <= j
     IN  /\ Cardinality(intervals) < Cardinality(TimerIds)
         /\ intervals' = intervals \cup { [id |-> id, direction |-> direction] }
         /\ rotationIntervalRef' = id
  /\ last' = [op |-> "startRotation", cleared |-> 0]
  /\ UNCHANGED <<appVars, reading, bolhatStateRef, wheelSees, effectPending>>
  /\ UNCHANGED <<pinchVars, dragVars, fingers, anchor>>
  /\ UNCHANGED <<pageVars, loaded>>

\* startContinuousRotation, from onMouseDown and onTouchStart of a rotation button
startContinuousRotation(direction) ==
  /\ Mounted
  /\ LET kept == IF rotationIntervalRef # 0
                 THEN { t \in intervals : t.id # rotationIntervalRef }
                 ELSE intervals
         id == CHOOSE i \in TimerIds :
                 /\ \A t \in kept : t.id # i
                 /\ \A j \in TimerIds : (\A t \in kept : t.id # j) => i <= j
     IN  /\ intervals' = kept \cup { [id |-> id, direction |-> direction] }
         /\ rotationIntervalRef' = id
  /\ last' = [op |-> "startRotation", cleared |-> rotationIntervalRef]
  /\ UNCHANGED <<appVars, reading, bolhatStateRef, wheelSees, effectPending>>
  /\ UNCHANGED <<pinchVars, dragVars, fingers, anchor>>
  /\ UNCHANGED <<pageVars, loaded>>

\* stopContinuousRotation without clearInterval
stopContinuousRotationKeepsInterval ==
  /\ Mounted
  /\ rotationIntervalRef' = 0
  /\ last' = [op |-> "stopRotation"]
  /\ UNCHANGED <<appVars, reading, bolhatStateRef, wheelSees, effectPending, intervals>>
  /\ UNCHANGED <<pinchVars, dragVars, fingers, anchor>>
  /\ UNCHANGED <<pageVars, loaded>>

\* stopContinuousRotation, from onMouseUp, onMouseLeave and onTouchEnd
stopContinuousRotation ==
  /\ Mounted
  /\ IF rotationIntervalRef # 0
     THEN /\ intervals' = { t \in intervals : t.id # rotationIntervalRef }
          /\ rotationIntervalRef' = 0
     ELSE UNCHANGED <<intervals, rotationIntervalRef>>
  /\ last' = [op |-> "stopRotation"]
  /\ UNCHANGED <<appVars, reading, bolhatStateRef, wheelSees, effectPending>>
  /\ UNCHANGED <<pinchVars, dragVars, fingers, anchor>>
  /\ UNCHANGED <<pageVars, loaded>>

\* The callback of a registered interval
TickRotation(direction, currentRotation) ==
  NormalizeRotation(IF direction = "left" THEN currentRotation - RotationStep
                    ELSE currentRotation + RotationStep)

intervalTick(t) ==
  /\ t \in intervals
  /\ bolhatNext' = updateBolhatState(bolhatNext,
       [rotation |-> TickRotation(t.direction, bolhatStateRef.rotation)])
  /\ last' = [op |-> "tick", dir |-> t.direction, before |-> bolhatNext.rotation]
  /\ UNCHANGED <<uploadedImage, uploadedNext, bolhatState>>
  /\ UNCHANGED <<canvasVars, pinchVars, dragVars, fingers, anchor>>
  /\ UNCHANGED <<pageVars, loaded>>

\* ---------------------------------------------------------------- export
\* The <img> elements handleSave reads through its three refs.
Layers == {"background", "bolhat", "watermark"}

\* The sizes getBoundingClientRect reports for the canvas element.
Containers == { <<500, 500>>, <<500, 250>>, <<300, 220>>, <<280, 240>> }

\* w-24 h-24 = 96px in DraggableImage
bolhatDisplaySize == 96

\* The refs are set exactly while the <img> elements are rendered.
RefsSet == alive /\ uploadedImage # 0

\* backgroundImg.naturalWidth, naturalHeight: 0 until the image has loaded
OriginalSize ==
  IF "background" \in loaded THEN NaturalSize[uploadedImage] ELSE <<0, 0>>

\* The record handleSave works with once it has chosen the branch and the
\* displayed size: crop offsets (lines 115-123) and scale factors (127-128).
FitFrom(originalWidth, originalHeight, canvasDisplayWidth, canvasDisplayHeight, landscape, displayedImageWidth, displayedImageHeight) ==
  [displayedImageWidth |-> displayedImageWidth,
   displayedImageHeight |-> displayedImageHeight,
   offsetX |-> IF landscape
               THEN DDiv(DSub(displayedImageWidth, D(canvasDisplayWidth)), D(2))
               ELSE D(0),
   offsetY |-> IF landscape THEN D(0)
               ELSE DDiv(DSub(displayedImageHeight, D(canvasDisplayHeight)), D(2)),
   scaleX |-> DDiv(D(originalWidth), displayedImageWidth),
   scaleY |-> DDiv(D(originalHeight), displayedImageHeight)]

\* CoverFit with the two branches exchanged
CoverFitSwapped(originalWidth, originalHeight, canvasDisplayWidth, canvasDisplayHeight) ==
  LET backgroundAspectRatio == DDiv(D(originalWidth), D(originalHeight))
      canvasAspectRatio == DDiv(D(canvasDisplayWidth), D(canvasDisplayHeight))
      landscape == ~DGt(backgroundAspectRatio, canvasAspectRatio)
  IN  FitFrom(originalWidth, originalHeight, canvasDisplayWidth, canvasDisplayHeight,
        landscape,
        IF landscape THEN DMul(D(canvasDisplayHeight), backgroundAspectRatio)
        ELSE D(canvasDisplayWidth),
        IF landscape THEN D(canvasDisplayHeight)
        ELSE DDiv(D(canvasDisplayWidth), backgroundAspectRatio))

\* CoverFit with the width-fit height multiplied by the aspect ratio
CoverFitMultiplies(originalWidth, originalHeight, canvasDisplayWidth, canvasDisplayHeight) ==
  LET backgroundAspectRatio == DDiv(D(originalWidth), D(originalHeight))
      canvasAspectRatio == DDiv(D(canvasDisplayWidth), D(canvasDisplayHeight))
      landscape == DGt(backgroundAspectRatio, canvasAspectRatio)
  IN  FitFrom(originalWidth, originalHeight, canvasDisplayWidth, canvasDisplayHeight,
        landscape,
        IF landscape THEN DMul(D(canvasDisplayHeight), backgroundAspectRatio)
        ELSE D(canvasDisplayWidth),
        IF landscape THEN D(canvasDisplayHeight)
        ELSE DMul(D(canvasDisplayWidth), backgroundAspectRatio))

\* handleSave, lines 106-128: the displayed size of the background under
\* object-cover, the crop offsets, and the scale from display to original.
CoverFit(originalWidth, originalHeight, canvasDisplayWidth, canvasDisplayHeight) ==
  LET backgroundAspectRatio == DDiv(D(originalWidth), D(originalHeight))
      canvasAspectRatio == DDiv(D(canvasDisplayWidth), D(canvasDisplayHeight))
      landscape == DGt(backgroundAspectRatio, canvasAspectRatio)
  IN  FitFrom(originalWidth, originalHeight, canvasDisplayWidth, canvasDisplayHeight,
        landscape,
        IF landscape THEN DMul(D(canvasDisplayHeight), backgroundAspectRatio)
        ELSE D(canvasDisplayWidth),
        IF landscape THEN D(canvasDisplayHeight)
        ELSE DDiv(D(canvasDisplayWidth), backgroundAspectRatio))

\* bolhatState.scale as a number: the model keeps it in tenths
ScaleValue(b) == DDiv(D(b.scale), D(10))

\* ProjectOverlay without the crop offsets
ProjectOverlayNoOffset(b, fit) ==
  [originalCenterX |-> DMul(DAdd(D(b.x), DDiv(D(bolhatDisplaySize), D(2))), fit.scaleX),
   originalCenterY |-> DMul(DAdd(D(b.y), DDiv(D(bolhatDisplaySize), D(2))), fit.scaleY),
   originalBolhatSize |-> DMul(DMul(D(bolhatDisplaySize), ScaleValue(b)), fit.scaleX)]

\* handleSave, lines 143-161: centre and size of the overlay in the pixels of
\* the original image.
ProjectOverlay(b, fit) ==
  LET displayBolhatCenterX == DAdd(D(b.x), DDiv(D(bolhatDisplaySize), D(2)))
      displayBolhatCenterY == DAdd(D(b.y), DDiv(D(bolhatDisplaySize), D(2)))
      relativeCenterX == DAdd(displayBolhatCenterX, fit.offsetX)
      relativeCenterY == DAdd(displayBolhatCenterY, fit.offsetY)
  IN  [originalCenterX |-> DMul(relativeCenterX, fit.scaleX),
       originalCenterY |-> DMul(relativeCenterY, fit.scaleY),
       originalBolhatSize |-> DMul(DMul(D(bolhatDisplaySize), ScaleValue(b)), fit.scaleX)]

\* Export: a picture is uploaded and the overlay has some transform; the
\* three <img> elements finish loading one by one and Save is clicked at any
\* moment, in any environment.
ExportTransforms ==
  { InitialBolhatState,
    [x |-> 10, y |-> 30, scale |-> 5, rotation |-> 90],
    [x |-> 0, y |-> 0, scale |-> MaxScale, rotation |-> 359] }

\* Position and scale of the transforms handleSave is run on: those an export
\* starts from, and the initial position under the scales the wheel reaches.
Placements ==
  { [x |-> b.x, y |-> b.y, scale |-> b.scale] : b \in ExportTransforms }
  \cup { [x |-> InitialX, y |-> InitialY, scale |-> s] :
           s \in (InitialScaleValue - MaxEvents - 1)..(InitialScaleValue + MaxEvents + 1) }

\* The sizes handleSave reads from the background <img>.
Originals == { NaturalSize[name] : name \in DOMAIN NaturalSize } \cup { <<0, 0>> }

\* Lines 106-128 and 143-161, worked out once for each size, container and
\* transform of the specifications below.
Geometry ==
  [original \in Originals, container \in Containers |->
     CoverFit(original[1], original[2], container[1], container[2])]

Projection ==
  [p \in Placements, original \in Originals, container \in Containers |->
     ProjectOverlay(p, Geometry[original, container])]

\* What one run of handleSave does, as a record: the alert it shows ("" for
\* none), the layers drawImage painted, and how the picture was delivered.
\* drawImage paints nothing for an <img> that has not finished loading.
SaveOutcome(container, ctxOk, isMobile, popupOk) ==
  IF ~RefsSet
  THEN [alert |-> "Image loading is not complete.", rasterized |-> FALSE,
        drawn |-> {}, delivered |-> "none"]
  ELSE IF ~ctxOk
  THEN [alert |-> "Failed to save image.", rasterized |-> FALSE,
        drawn |-> {}, delivered |-> "none"]
  ELSE LET placed == [x |-> bolhatState.x, y |-> bolhatState.y,
                       scale |-> bolhatState.scale]
       IN  [alert |-> "", rasterized |-> TRUE,
            drawn |-> loaded,
            original |-> OriginalSize,
            fit |-> Geometry[OriginalSize, container],
            overlay |-> Projection[placed, OriginalSize, container],
            rotation |-> bolhatState.rotation,
            delivered |-> IF ~isMobile THEN "download"
                          ELSE IF popupOk THEN "preview" ELSE "none"]

\* onClick of the Save button, which is disabled without an uploaded image.
\* ctxOk: getContext('2d') returned a context; isMobile: the user agent
\* matches; popupOk: window.open returned a window.
handleSave(container, ctxOk, isMobile, popupOk) ==
  /\ Mounted
  /\ LET outcome == SaveOutcome(container, ctxOk, isMobile, popupOk)
     IN  /\ alerts' = IF outcome.alert # "" THEN alerts + 1 ELSE alerts
         /\ last' = [op |-> "save", container |-> container, ctxOk |-> ctxOk,
                     isMobile |-> isMobile, popupOk |-> popupOk, outcome |-> outcome]
  /\ UNCHANGED <<appVars, canvasVars, pinchVars, dragVars, fingers, anchor>>
  /\ UNCHANGED <<imageAspectRatio, probing, alive, loaded>>

\* The load event of one of the three <img> elements.
imgOnLoad(layer) ==
  /\ Mounted
  /\ layer \notin loaded
  /\ loaded' = loaded \cup {layer}
  /\ last' = [op |-> "imgOnLoad", layer |-> layer]
  /\ UNCHANGED <<appVars, canvasVars, pinchVars, dragVars, fingers, anchor>>
  /\ UNCHANGED pageVars

\* -------------------------------------------------------------- teardown
\* unmount without the cleanup of CollageCanvas
unmountKeepsInterval ==
  /\ alive
  /\ alive' = FALSE
  /\ last' = [op |-> "unmount"]
  /\ UNCHANGED <<appVars, canvasVars, pinchVars, dragVars, fingers, anchor>>
  /\ UNCHANGED <<imageAspectRatio, probing, alerts, loaded>>

\* The page is torn down: the cleanup of CollageCanvas clears the interval in
\* rotationIntervalRef (and leaves the ref as it is); the cleanup of
\* DraggableImage clears longPressTimerRef, which no code ever sets.
unmount ==
  /\ alive
  /\ alive' = FALSE
  /\ intervals' = IF rotationIntervalRef # 0
                  THEN { t \in intervals : t.id # rotationIntervalRef }
                  ELSE intervals
  /\ last' = [op |-> "unmount"]
  /\ UNCHANGED <<appVars, reading, bolhatStateRef, wheelSees, effectPending>>
  /\ UNCHANGED <<rotationIntervalRef, pinchVars, dragVars, fingers, anchor>>
  /\ UNCHANGED <<imageAspectRatio, probing, alerts, loaded>>

\* ------------------------------------------------------------ specifications
\* A step that the budget of the behaviour counts.
Counted ==
  IF Mounted
  THEN nEvents < MaxEvents /\ nEvents' = nEvents + 1
  ELSE UNCHANGED nEvents

Uncounted == UNCHANGED nEvents

Next ==
  \/ \E f \in Files : handleFileSelect(f) /\ Counted
  \/ \E n \in reading : readerOnLoad(n) /\ Uncounted
  \/ Render /\ Uncounted
  \/ FlushEffects /\ Uncounted
  \/ \E p \in Pts : handleMouseDown(p) /\ Counted
  \/ \E p \in Pts : handleMouseMove(p) /\ Counted
  \/ handleMouseUp /\ Uncounted
  \/ \E p \in Pts : handleTouchStart(p) /\ Counted
  \/ \E i \in 1..Len(fingers), p \in Pts : handleTouchMove(i, p) /\ Counted
  \/ \E lifted \in SUBSET (1..Len(fingers)) : handleTouchEnd(lifted) /\ Uncounted
  \/ \E deltaY \in {-1, 0, 1} : handleCanvasWheel(deltaY) /\ Counted
  \/ \E dir \in {"up", "down"} : scaleClick(dir) /\ Counted
  \/ \E dir \in {"left", "right"} : rotateClick(dir) /\ Counted
  \/ \E dir \in {"left", "right"} : startContinuousRotation(dir) /\ Counted
  \/ stopContinuousRotation /\ Counted
  \/ \E t \in intervals : intervalTick(t) /\ Counted

Spec == Init /\ [][Next]_vars

\* Runs of clicks on the rotation buttons, on an uploaded image: the clicks
\* are the onClick handler alone, shorter than the 50 ms of the interval.
InitClicks == InitWith(1, InitialBolhatState)

RunOpen(dir) ==
  ~(last.op = "rotateClick" /\ last.dir = dir /\ last.runLen >= MaxClicks)

NextClicks ==
  \/ RunOpen("right") /\ rotateClick("right") /\ Uncounted
  \/ RunOpen("left") /\ rotateClick("left") /\ Uncounted

SpecClicks == InitClicks /\ [][NextClicks]_vars

\* The rotation controls and the wheel on an uploaded image, until the page is
\* torn down; after that only callbacks of timers still registered can run.
InitTeardown == InitWith(1, InitialBolhatState)

NextTeardown ==
  \/ alive /\ Render /\ Uncounted
  \/ alive /\ FlushEffects /\ Uncounted
  \/ alive /\ (\E deltaY \in {-1, 1} : handleCanvasWheel(deltaY)) /\ Counted
  \/ alive /\ (\E dir \in {"left", "right"} : rotateClick(dir)) /\ Counted
  \/ alive /\ (\E dir \in {"left", "right"} : startContinuousRotation(dir)) /\ Counted
  \/ alive /\ stopContinuousRotation /\ Counted
  \/ \E t \in intervals : intervalTick(t) /\ Counted
  \/ unmount /\ Uncounted

SpecTeardown == InitTeardown /\ [][NextTeardown]_vars

InitExport ==
  \E name \in DOMAIN NaturalSize, b \in ExportTransforms : InitWith(name, b)

NextExport ==
  \/ \E layer \in Layers : imgOnLoad(layer) /\ Uncounted
  \/ \E container \in Containers, ctxOk \in BOOLEAN, isMobile \in BOOLEAN,
        popupOk \in BOOLEAN :
       handleSave(container, ctxOk, isMobile, popupOk) /\ Counted

SpecExport == InitExport /\ [][NextExport]_vars

\* Upload: files are dropped on the canvas or chosen in the file dialog,
\* before and after the first upload, among controls and exports.
UploadFiles ==
  Files \cup { [name |-> 3, type |-> ImageJpeg], [name |-> 6, type |-> NoType] }

NextUpload ==
  \/ \E f \in UploadFiles : handleDrop(f) /\ Counted
  \/ \E f \in UploadFiles : handleFileInputChange(f) /\ Counted
  \/ \E n \in reading : readerOnLoad(n) /\ Uncounted
  \/ \E n \in probing : probeOnLoad(n) /\ Uncounted
  \/ Render /\ Uncounted
  \/ FlushEffects /\ Uncounted
  \/ \E deltaY \in {-1, 1} : handleCanvasWheel(deltaY) /\ Counted
  \/ \E dir \in {"left", "right"} : rotateClick(dir) /\ Counted
  \/ handleSave(<<500, 500>>, TRUE, FALSE, TRUE) /\ Counted

SpecUpload == Init /\ [][NextUpload]_vars

\* Touch gestures with up to three pointers on an uploaded image: pointers
\* land, move and lift in any order, with renders in between.
InitTouch == InitWith(1, InitialBolhatState)

\* Where the pointers of SpecTouch land; they move to every point of Pts.
TouchStarts == { <<200, 200>>, <<217, 200>>, <<234, 200>> }

CountedTouch == nEvents < MaxTouchEvents /\ nEvents' = nEvents + 1

NextTouch ==
  \/ Render /\ Uncounted
  \/ FlushEffects /\ Uncounted
  \/ \E p \in TouchStarts : handleTouchStart(p) /\ CountedTouch
  \/ \E i \in 1..Len(fingers), p \in Pts : handleTouchMove(i, p) /\ CountedTouch
  \/ \E lifted \in SUBSET (1..Len(fingers)) : handleTouchEnd(lifted) /\ Uncounted

SpecTouch == InitTouch /\ [][NextTouch]_vars

\* The start of a pinch on an uploaded image: two pointers land, move between
\* two points and lift, while the wheel is turned; renders in between.
PinchStarts == { <<200, 200>>, <<217, 200>> }

CountedPinch == nEvents < MaxPinchEvents /\ nEvents' = nEvents + 1

NextPinchStart ==
  \/ Render /\ Uncounted
  \/ FlushEffects /\ Uncounted
  \/ Len(fingers) < 2 /\ (\E p \in PinchStarts : handleTouchStart(p)) /\ CountedPinch
  \/ \E i \in 1..Len(fingers), p \in PinchStarts : handleTouchMove(i, p) /\ CountedPinch
  \/ \E i \in 1..Len(fingers) : handleTouchEnd({i}) /\ Uncounted
  \/ handleCanvasWheel(-1) /\ CountedPinch

SpecPinchStart == InitTouch /\ [][NextPinchStart]_vars

\* ------------------------------------------------------------------ claims
\* C1: in every reachable state the transform (committed, queued, and the
\* copy in bolhatStateRef) has 0.1 <= scale <= 10 and 0 <= rotation < 360.
C1_ScaleRotationInRange ==
  \A b \in {bolhatState, bolhatNext, bolhatStateRef} :
    /\ MinScale <= b.scale /\ b.scale <= MaxScale
    /\ 0 <= b.rotation /\ b.rotation < FullTurn

\* A pinch drove the scale into the upper clamp and turned the overlay past 180.
C1_Witness ==
  /\ last.op = "pinch"
  /\ bolhatNext.scale = MaxScale
  /\ bolhatNext.rotation > HalfTurn

\* C2: after a two-pointer move with initialDistance > 0 the scale is
\* clamp(initialScale * currentDistance / initialDistance, 0.1, 10), and so
\* lies in [0.1, 10].
C2_PinchScaleIsClampedRatio ==
  last.op = "pinch" =>
    /\ initialDistance > 0
    /\ MinScale <= bolhatNext.scale /\ bolhatNext.scale <= MaxScale
    /\ IF initialScale * last.currentDistance >= MaxScale * initialDistance
       THEN bolhatNext.scale = MaxScale
       ELSE IF initialScale * last.currentDistance <= MinScale * initialDistance
       THEN bolhatNext.scale = MinScale
       ELSE bolhatNext.scale * initialDistance = initialScale * last.currentDistance

\* A pinch that doubled or halved the distance, inside the clamp range.
C2_Witness ==
  /\ last.op = "pinch"
  /\ last.currentDistance # initialDistance
  /\ bolhatNext.scale # initialScale
  /\ MinScale < bolhatNext.scale /\ bolhatNext.scale < MaxScale

\* C3: after a two-pointer move the rotation is initialRotation +
\* currentAngle - initialAngle reduced into [0, 360); from initial angle 170
\* to angle -170 the delta applied is 20, not -340.
C3_PinchRotationContinuous ==
  last.op = "pinch" =>
    /\ 0 <= bolhatNext.rotation /\ bolhatNext.rotation < FullTurn
    /\ (bolhatNext.rotation - (initialRotation + last.currentAngle - initialAngle))
         % FullTurn = 0
    /\ (initialAngle = 170 /\ last.currentAngle = -170) =>
         /\ last.angleDelta = 20
         /\ bolhatNext.rotation = (initialRotation + 20) % FullTurn

\* The pointers went from angle 170 to angle -170.
C3_Witness ==
  /\ last.op = "pinch"
  /\ initialAngle = 170
  /\ last.currentAngle = -170

\* C4 as stated: the normalized delta lies in (-180, 180].
C4_AngleDeltaHalfOpen ==
  last.op = "pinch" =>
    -HalfTurn < last.angleDelta /\ last.angleDelta <= HalfTurn

\* C4, amended: the normalized delta lies in [-180, 180] and is congruent to
\* currentAngle - initialAngle modulo 360; a delta of -180 stays -180.
C4_AngleDeltaClosed ==
  last.op = "pinch" =>
    /\ -HalfTurn <= last.angleDelta /\ last.angleDelta <= HalfTurn
    /\ (last.angleDelta - (last.currentAngle - initialAngle)) % FullTurn = 0

\* The pointers went from angle 180 to angle 0: the delta is -180.
C4_Witness ==
  /\ last.op = "pinch"
  /\ last.angleDelta = -HalfTurn

C6_LiftKeepsOverlay ==
  /\ (last.op = "touchEnd" /\ last.count = 1) =>
       /\ bolhatNext = last.before
       /\ bolhatState = last.before
       /\ isLongPress
       /\ anchor.kind = "lift"
  /\ (last.op = "touchDrag" /\ anchor.kind = "lift") =>
       /\ bolhatNext.x = anchor.origin[1] + last.ptr[1] - anchor.ptr[1]
       /\ bolhatNext.y = anchor.origin[2] + last.ptr[2] - anchor.ptr[2]

\* After a pinch that changed the transform, one pointer was lifted and the
\* other one moved.
C6_Witness ==
  /\ last.op = "touchDrag"
  /\ anchor.kind = "lift"
  /\ last.ptr # anchor.ptr
  /\ Origin(bolhatNext) # <<InitialX, InitialY>>

\* C7: a press (mouse down, first touch) records offset = pointer - origin
\* and leaves the overlay where it is; every move of the pressed pointer sets
\* origin = pointer - offset, which is the origin at the press plus the
\* pointer's displacement since the press.
C7_DragFollowsPointer ==
  /\ (last.op = "mouseDown" \/ (last.op = "touchStart" /\ last.count = 1)) =>
       /\ bolhatNext = last.before
       /\ anchor.kind = "press"
       /\ dragStart.x = anchor.ptr[1] - bolhatNext.x
       /\ dragStart.y = anchor.ptr[2] - bolhatNext.y
  /\ (last.op \in {"mouseDrag", "touchDrag"} /\ anchor.kind = "press") =>
       /\ bolhatNext.x = last.ptr[1] - dragStart.x
       /\ bolhatNext.y = last.ptr[2] - dragStart.y
       /\ bolhatNext.x = anchor.origin[1] + last.ptr[1] - anchor.ptr[1]
       /\ bolhatNext.y = anchor.origin[2] + last.ptr[2] - anchor.ptr[2]

\* The second move of a mouse drag, away from where the button went down.
C7_Witness ==
  /\ last.op = "mouseDrag"
  /\ nEvents = 3
  /\ last.ptr # anchor.ptr
  /\ bolhatNext # bolhatState

\* C8: a touch end that leaves no pointer resets the gesture accumulators
\* (drag mode off, no tracked touch, initial distance 0, initial angle 0,
\* snapshot scale 1, snapshot rotation 0) and leaves the transform as it was.
C8_NoPointerResets ==
  (last.op = "touchEnd" /\ last.count = 0) =>
    /\ ~isLongPress
    /\ touches = << >> /\ touchesNext = << >>
    /\ initialDistance = 0
    /\ initialAngle = 0
    /\ initialScale = ResetScale
    /\ initialRotation = 0
    /\ bolhatNext = last.before
    /\ bolhatState = last.before

\* Both pointers of a pinch that changed the transform were lifted together.
C8_Witness ==
  /\ last.op = "touchEnd"
  /\ last.from = 2
  /\ last.count = 0
  /\ bolhatNext.scale # InitialScaleValue

\* C9: a wheel tick on an uploaded image changes the current scale by
\* +0.1 or -0.1, clamped to [0.1, 10].
C9_WheelStepsCurrentScale ==
  last.op = "wheel" =>
    bolhatNext.scale =
      (IF last.before + last.scaleDelta > MaxScale THEN MaxScale
       ELSE IF last.before + last.scaleDelta < MinScale THEN MinScale
       ELSE last.before + last.scaleDelta)

\* C10: a tick of the rotation interval steps the current rotation by +1
\* (right) or -1 (left), wrapped into [0, 360).
C10_TickStepsCurrentRotation ==
  last.op = "tick" =>
    bolhatNext.rotation =
      (last.before + (IF last.dir = "right" THEN 1 ELSE -1)) % FullTurn

\* C11: a release or pointer-leave on a rotation button (stopContinuousRotation)
\* leaves no interval registered, and while none is registered no step other
\* than a press registers one and no tick runs.
C11_ReleaseCancelsRotation ==
  [][ /\ last'.op = "stopRotation" =>
           intervals' = {} /\ rotationIntervalRef' = 0
      /\ (intervals = {} /\ last'.op # "startRotation") =>
           intervals' = {} /\ last'.op # "tick"
    ]_vars

\* A button was pressed, a tick turned the overlay, and the button was released.
C11_Witness ==
  /\ last.op = "stopRotation"
  /\ bolhatNext.rotation # bolhatState.rotation
  /\ intervals = {}

\* C12: once the canvas component is unmounted no interval is registered, no
\* tick runs and the transform does not change any more, also when the
\* unmount happens while a rotation button is held.
C12_TeardownCancelsTimers ==
  [][ /\ ~alive' => intervals' = {}
      /\ ~alive => (last'.op # "tick" /\ bolhatNext' = bolhatNext)
    ]_vars

\* The component was unmounted while a button was held and ticks had turned
\* the overlay.
C12_Witness ==
  /\ ~alive
  /\ rotationIntervalRef # 0
  /\ bolhatNext.rotation # 0
  /\ last.op = "unmount"

\* C13 as stated: an export attempted while one of the three images is
\* still loading shows an alert, does not rasterize and delivers nothing.
C13_ExportWaitsForImages ==
  (last.op = "save" /\ loaded # Layers) =>
    /\ last.outcome.alert # ""
    /\ ~last.outcome.rasterized
    /\ last.outcome.delivered = "none"

\* C14 as stated: without a 2D context the export shows an alert and
\* delivers nothing, and every export that delivers nothing shows an alert.
C14_SilentExportNeverHappens ==
  last.op = "save" =>
    /\ ~last.ctxOk => (last.outcome.alert # "" /\ last.outcome.delivered = "none")
    /\ last.outcome.delivered = "none" => last.outcome.alert # ""

\* C15: cover fit. With image aspect ratio above the container's, the
\* displayed height is the container height, the displayed width is container
\* height * image aspect, offsetX is half the overhang and offsetY is 0;
\* otherwise the displayed width is the container width, offsetX is 0 and
\* offsetY is half the vertical overhang. 1000x500 in 500x500 gives displayed
\* 1000x500 with offsetX 250 and offsetY 0.
C15_CoverFit ==
  (last.op = "save" /\ last.outcome.rasterized /\ "background" \in loaded) =>
    LET ow == last.outcome.original[1]
        oh == last.outcome.original[2]
        cw == last.container[1]
        ch == last.container[2]
        fit == last.outcome.fit
    IN  /\ IF ow * ch > cw * oh
           THEN /\ fit.displayedImageHeight = D(ch)
                /\ fit.displayedImageWidth = DMul(D(ch), DDiv(D(ow), D(oh)))
                /\ fit.offsetX = DDiv(DSub(fit.displayedImageWidth, D(cw)), D(2))
                /\ fit.offsetY = D(0)
           ELSE /\ fit.displayedImageWidth = D(cw)
                /\ fit.offsetX = D(0)
                /\ fit.offsetY = DDiv(DSub(fit.displayedImageHeight, D(ch)), D(2))
        /\ (ow = 1000 /\ oh = 500 /\ cw = 500 /\ ch = 500) =>
             /\ fit.displayedImageHeight = D(500)
             /\ fit.displayedImageWidth = D(1000)
             /\ fit.offsetX = D(250)
             /\ fit.offsetY = D(0)

\* The loaded 1000x500 background was exported from a 500x500 container.
C15_Witness ==
  /\ last.op = "save"
  /\ last.outcome.rasterized
  /\ "background" \in loaded
  /\ last.outcome.original = <<1000, 500>>
  /\ last.container = <<500, 500>>

\* C16 as stated: when image and container have the same aspect ratio, both
\* crop offsets are 0 and the two scale factors are equal.
C16_EqualAspectNoCrop ==
  (/\ last.op = "save" /\ last.outcome.rasterized /\ "background" \in loaded
   /\ last.outcome.original[1] * last.container[2]
        = last.container[1] * last.outcome.original[2]) =>
    /\ last.outcome.fit.offsetX = D(0)
    /\ last.outcome.fit.offsetY = D(0)
    /\ last.outcome.fit.scaleX = last.outcome.fit.scaleY

\* C16, amended: when image and container have the same aspect ratio, offsetX
\* is 0, offsetY is 0 up to the rounding of the displayed height (at most
\* container height * 2^-52 in size, of either sign), and the two scale
\* factors differ by at most scaleX * 2^-50.
C16_EqualAspectNoCropUpToRounding ==
  (/\ last.op = "save" /\ last.outcome.rasterized /\ "background" \in loaded
   /\ last.outcome.original[1] * last.container[2]
        = last.container[1] * last.outcome.original[2]) =>
    LET fit == last.outcome.fit
        gap == DSub(fit.scaleX, fit.scaleY)
        Size(a) == IF a.neg THEN DNeg(a) ELSE a
    IN  /\ fit.offsetX = D(0)
        /\ ~DGt(Size(fit.offsetY),
                DMul(D(last.container[2]), DMake(FALSE, <<1>>, -52)))
        /\ ~DGt(Size(gap), DMul(fit.scaleX, DMake(FALSE, <<1>>, -50)))
        /\ ~IsNaN(fit.offsetY) /\ ~IsNaN(gap)

\* The loaded 600x440 background was exported from a 300x220 container, and
\* the displayed height came out above 220.
C16_Witness ==
  /\ last.op = "save"
  /\ last.outcome.rasterized
  /\ "background" \in loaded
  /\ last.outcome.original = <<600, 440>>
  /\ last.container = <<300, 220>>
  /\ DGt(last.outcome.fit.displayedImageHeight, D(220))

\* C17: the projected overlay has centre ((x + 48 + offsetX) * scaleX,
\* (y + 48 + offsetY) * scaleY) and size 96 * scale * scaleX, whatever the
\* platform; for 1000x500 in 500x500 with the initial transform the centre is
\* (498, 248) and the size 288.
C17_OverlayProjection ==
  (last.op = "save" /\ last.outcome.rasterized /\ "background" \in loaded) =>
    LET fit == last.outcome.fit
        overlay == last.outcome.overlay
    IN  /\ overlay.originalCenterX
             = DMul(DAdd(D(bolhatState.x + 48), fit.offsetX), fit.scaleX)
        /\ overlay.originalCenterY
             = DMul(DAdd(D(bolhatState.y + 48), fit.offsetY), fit.scaleY)
        /\ overlay.originalBolhatSize
             = DMul(DMul(D(96), DDiv(D(bolhatState.scale), D(10))), fit.scaleX)
        /\ (/\ last.outcome.original = <<1000, 500>>
            /\ last.container = <<500, 500>>
            /\ bolhatState = InitialBolhatState) =>
             /\ overlay.originalCenterX = D(498)
             /\ overlay.originalCenterY = D(248)
             /\ overlay.originalBolhatSize = D(288)

\* The initial transform over the loaded 1000x500 background was exported
\* from a 500x500 container to the mobile preview.
C17_Witness ==
  /\ last.op = "save"
  /\ last.outcome.delivered = "preview"
  /\ "background" \in loaded
  /\ last.outcome.original = <<1000, 500>>
  /\ last.container = <<500, 500>>
  /\ bolhatState = InitialBolhatState

\* C18 as stated: once a background image is stored, no step changes it.
C18_BackgroundImmutable ==
  [][uploadedImage # 0 => uploadedImage' = uploadedImage]_vars

\* C20: selecting or dropping a file whose type does not start with
\* "image/" changes neither the uploaded image, nor the aspect ratio, nor the
\* transform, starts no read, and shows no alert.
C20_NonImageIgnored ==
  [][ (/\ last'.op = "fileSelect"
       /\ LET t == last'.file.type
          IN  ~(/\ Len(t) >= 6
                /\ t[1] = "i" /\ t[2] = "m" /\ t[3] = "a"
                /\ t[4] = "g" /\ t[5] = "e" /\ t[6] = "/")) =>
        UNCHANGED <<uploadedImage, uploadedNext, imageAspectRatio, bolhatState,
                    bolhatNext, reading, probing, alerts>>
    ]_vars

\* A text file was selected after an upload whose aspect ratio is known and
\* after the overlay was resized.
C20_Witness ==
  /\ last.op = "fileSelect"
  /\ last.file.type = TextPlain
  /\ uploadedImage # 0
  /\ imageAspectRatio # NoAspectRatio
  /\ bolhatNext # InitialBolhatState

\* C19: every update of the transform leaves the fields it does not name as
\* they were, also on top of updates that are still queued: a drag changes
\* only x and y, a pinch only scale and rotation, the wheel and the scale
\* buttons only scale, the rotation buttons and the interval ticks only
\* rotation; no other step changes the transform.
C19_PartialUpdateFrame ==
  [][ /\ last'.op \in {"mouseDrag", "touchDrag"} =>
           /\ bolhatNext'.scale = bolhatNext.scale
           /\ bolhatNext'.rotation = bolhatNext.rotation
      /\ last'.op = "pinch" =>
           /\ bolhatNext'.x = bolhatNext.x
           /\ bolhatNext'.y = bolhatNext.y
      /\ last'.op \in {"wheel", "scaleClick"} =>
           /\ bolhatNext'.x = bolhatNext.x
           /\ bolhatNext'.y = bolhatNext.y
           /\ bolhatNext'.rotation = bolhatNext.rotation
      /\ last'.op \in {"rotateClick", "tick"} =>
           /\ bolhatNext'.x = bolhatNext.x
           /\ bolhatNext'.y = bolhatNext.y
           /\ bolhatNext'.scale = bolhatNext.scale
      /\ last'.op \notin {"mouseDrag", "touchDrag", "pinch", "wheel", "scaleClick",
                          "rotateClick", "tick"} =>
           bolhatNext' = bolhatNext
    ]_vars

\* A wheel tick was merged on top of a drag that no render has shown yet.
C19_Witness ==
  /\ last.op = "wheel"
  /\ bolhatNext.scale # bolhatState.scale
  /\ bolhatNext.x # bolhatState.x


\* C21: a touch move changes scale or rotation only as a pinch: exactly two
\* pointers are down and the accumulators it uses were recorded at the touch
\* start at which those same two pointers became the pair.  After A and B
\* pinch, C lands and A lifts, a move of B and C is measured against the
\* accumulators of A and B.
C21_PinchUsesSnapshotOfItsPair ==
  last.op = "pinch" =>
    /\ Len(fingers) = 2
    /\ anchor.kind = "pair"
    /\ anchor.ids = { fingers[1].identifier, fingers[2].identifier }

\* C22: at most one continuous-rotation interval is registered at any time,
\* whatever the order of presses, releases and pointer-leaves on the two
\* rotation buttons, and it is the one rotationIntervalRef holds: a start
\* clears the interval registered before it.
C22_AtMostOneInterval ==
  /\ Cardinality(intervals) <= 1
  /\ \A t \in intervals : t.id = rotationIntervalRef
  /\ last.op = "startRotation" => Cardinality(intervals) = 1

\* The clockwise rotation was started while an interval was registered, and
\* only the new interval is left.
C22_Witness ==
  /\ last.op = "startRotation"
  /\ last.cleared # 0
  /\ intervals = { [id |-> rotationIntervalRef, direction |-> "right"] }

\* C23 as stated: for every loaded image and container the cover fit gives
\* offsetX >= 0 and offsetY >= 0, one of them 0, and equal scale factors, so
\* the overlay size computed with scaleY is the one computed with scaleX.
C23_CoverFitExact ==
  (last.op = "save" /\ last.outcome.rasterized /\ "background" \in loaded) =>
    LET fit == last.outcome.fit
    IN  /\ ~IsNaN(fit.offsetX) /\ ~DGt(D(0), fit.offsetX)
        /\ ~IsNaN(fit.offsetY) /\ ~DGt(D(0), fit.offsetY)
        /\ fit.offsetX = D(0) \/ fit.offsetY = D(0)
        /\ fit.scaleX = fit.scaleY
        /\ last.outcome.overlay.originalBolhatSize
             = DMul(DMul(D(bolhatDisplaySize), ScaleValue(bolhatState)), fit.scaleY)

\* C23, amended: one of the offsets is 0 and offsetX is never negative;
\* offsetY is at least -(container height * 2^-52); the scale factors differ
\* by at most scaleX * 2^-50, and the overlay size computed with scaleY
\* differs from the one the program computes with scaleX by at most that
\* size * 2^-49.
C23_CoverFitUpToRounding ==
  (last.op = "save" /\ last.outcome.rasterized /\ "background" \in loaded) =>
    LET fit == last.outcome.fit
        size == last.outcome.overlay.originalBolhatSize
        Size(a) == IF a.neg THEN DNeg(a) ELSE a
    IN  /\ ~IsNaN(fit.offsetX) /\ ~DGt(D(0), fit.offsetX)
        /\ fit.offsetX = D(0) \/ fit.offsetY = D(0)
        /\ ~IsNaN(fit.offsetY)
        /\ ~DGt(DNeg(DMul(D(last.container[2]), DMake(FALSE, <<1>>, -52))), fit.offsetY)
        /\ ~IsNaN(DSub(fit.scaleX, fit.scaleY))
        /\ ~DGt(Size(DSub(fit.scaleX, fit.scaleY)),
                DMul(fit.scaleX, DMake(FALSE, <<1>>, -50)))
        /\ ~DGt(Size(DSub(size,
                  DMul(DMul(D(bolhatDisplaySize), ScaleValue(bolhatState)), fit.scaleY))),
                DMul(size, DMake(FALSE, <<1>>, -49)))

\* The loaded 560x480 background was exported from a 280x240 container, and
\* offsetY came out below 0.
C23_Witness ==
  /\ last.op = "save"
  /\ last.outcome.rasterized
  /\ "background" \in loaded
  /\ last.outcome.original = <<560, 480>>
  /\ last.container = <<280, 240>>
  /\ DGt(D(0), last.outcome.fit.offsetY)

\* C24: a mouse move changes the overlay position only between a mouse down
\* on the overlay and the next mouse up, and then leaves scale and rotation
\* alone; before any mouse down and after the mouse up a mouse move leaves
\* the transform unchanged.  isDragging is set by mouse down and cleared by
\* mouse up, and by nothing else.
C24_MouseMoveOnlyWhileDragging ==
  [][ /\ isDragging' # isDragging =>
           /\ last'.op \in {"mouseDown", "mouseUp"}
           /\ isDragging' = (last'.op = "mouseDown")
      /\ last'.op = "mouseDown" => isDragging'
      /\ last'.op = "mouseUp" => ~isDragging'
      /\ last'.op = "mouseDrag" =>
           /\ isDragging
           /\ bolhatNext'.scale = bolhatNext.scale
           /\ bolhatNext'.rotation = bolhatNext.rotation
      /\ last'.op = "mouseMoveIgnored" =>
           /\ ~isDragging
           /\ bolhatNext' = bolhatNext
           /\ bolhatState' = bolhatState
    ]_vars

\* The overlay has been dragged away from its initial position, no mouse
\* drag is under way, and a mouse move was ignored.
C24_Witness ==
  /\ last.op = "mouseMoveIgnored"
  /\ ~isDragging
  /\ Origin(bolhatNext) # <<InitialX, InitialY>>

\* C25: starting a pinch does not jump.  A move of the two pointers whose
\* touch start recorded the accumulators, at the distance and angle recorded
\* (with initial distance > 0), leaves scale and rotation at the values the
\* transform had at that touch start; and no pinch happens while the recorded
\* initial distance is 0.
C25_PinchStartDoesNotJump ==
  last.op = "pinch" =>
    /\ initialDistance > 0
    /\ (/\ anchor.kind = "pair"
        /\ anchor.ids = { fingers[1].identifier, fingers[2].identifier }
        /\ last.currentDistance = initialDistance
        /\ last.currentAngle = initialAngle) =>
         /\ bolhatNext.scale = anchor.scale
         /\ bolhatNext.rotation = anchor.rotation

\* C26: while no background image is uploaded the transform, rendered and
\* queued, is the initial one {x: 200, y: 200, scale: 3, rotation: 0}: wheel
\* ticks are ignored, and no drag, pinch, button click or tick of the
\* rotation interval has happened or can happen (no pointer is down on the
\* overlay and no interval is registered).
C26_NoImageNoChange ==
  uploadedImage = 0 =>
    /\ bolhatState = InitialBolhatState
    /\ bolhatNext = InitialBolhatState
    /\ bolhatStateRef = InitialBolhatState
    /\ last.op \notin {"mouseDrag", "touchDrag", "pinch", "wheel",
                        "scaleClick", "rotateClick", "tick"}
    /\ ~isDragging /\ fingers = << >> /\ intervals = {}

\* A wheel tick was ignored while the picture had been read but was not
\* rendered yet.
C26_Witness ==
  /\ uploadedImage = 0
  /\ uploadedNext # 0
  /\ last.op = "wheelIgnored"
=============================================================================
